---- MODULE Spec2Model ----
(***************************************************************************)
(* fastbill/go-request (request.go): the request pipeline of Do,           *)
(* DoWithStringResponse and DoWithCustomClient, the client selection with  *)
(* the package-level cachedClient, the status validation and the deferred  *)
(* close of the response body.                                             *)
(*                                                                         *)
(* Every goroutine p that calls into the package is a process.  A call is  *)
(* a sequence of steps; pc[p] is the position of p inside the call.        *)
(* The clients are objects on a heap (clients), a *http.Client is an index *)
(* into it and NULL is the nil pointer.                                    *)
(***************************************************************************)
EXTENDS Integers, Sequences, FiniteSets, TLC

(* Bounds of the model. *)
NumProcs == 2
MaxCalls == 3
MaxConcCalls == 2
MaxBuildCalls == 1
MaxMapLen == 2

(* request.go:21, in seconds *)
defaultTimeout == 30

(* the nil *http.Client *)
NULL == 0

Procs == 1..NumProcs

(* The goroutine of a sequential series of calls. *)
MainProc == CHOOSE p \in Procs : \A q \in Procs : p <= q

VARIABLES
    cachedClient,   \* request.go:18, the package-level *http.Client
    clients,        \* the heap of http.Client objects: <<[Timeout |-> ..]>>
    ncalls,         \* number of calls made so far (bounded by MaxCalls)
    selected,       \* history: <<[Timeout, client]>> per selectClient return
    pc,             \* position of each goroutine within its call
    entry,          \* the entry point the goroutine is in
    params,         \* the Params of the call
    responseBody,   \* the responseBody argument: "nil" or "ptr"
    responseHeaderArg, \* the variadic http.Header arguments of Do
    req,            \* the local variable req
    client,         \* the local variable client
    dispatched,     \* the requests handed to client.Do by this call
    res,            \* the *http.Response of the call
    returnErr,      \* the (named) error result
    result,         \* the string result / the value decoded into responseBody
    panicking       \* the goroutine is unwinding a run-time panic

vars   == <<cachedClient, clients, ncalls, selected, pc, entry, params,
           responseBody, responseHeaderArg, req, client, dispatched, res,
           returnErr, result, panicking>>

-----------------------------------------------------------------------------
(* Errors.  type is the dynamic type of the error value, text its message  *)
(* (for an HTTPError: the Message field), StatusCode the field of an       *)
(* HTTPError (0 for every other error).                                    *)

NilErr == [type |-> "nil", StatusCode |-> 0, text |-> ""]

(* errors.New(text) and fmt.Errorf without %w *)
NewError(text) == [type |-> "error", StatusCode |-> 0, text |-> text]

(* fmt.Errorf(prefix + ": %w", err) *)
Wrap(prefix, err) == [type |-> "error", StatusCode |-> 0,
                      text |-> prefix \o ": " \o err.text]

(* net/http.StatusText for the codes of the model; "" for an unknown code *)
StatusText(code) ==
    CASE code = 200 -> "OK"
      [] code = 201 -> "Created"
      [] code = 299 -> ""
      [] code = 300 -> "Multiple Choices"
      [] code = 404 -> "Not Found"
      [] code = 500 -> "Internal Server Error"
      [] OTHER -> ""

(* the message argument nil of httperrors.New *)
NoMessage == [present |-> FALSE, text |-> ""]
Message(text) == [present |-> TRUE, text |-> text]

(* httperrors.New(statusCode, message): without a message the HTTPError    *)
(* carries the status text (request_test.go:233-238), with a string        *)
(* message it carries that string (request_test.go:254-259).               *)
httperrors_New(statusCode, message) ==
    [type |-> "HTTPError", StatusCode |-> statusCode,
     text |-> IF message.present THEN message.text ELSE StatusText(statusCode)]

-----------------------------------------------------------------------------
(* Request construction. *)

NilBody == [kind |-> "nil", data |-> ""]
NoReader == [present |-> FALSE, bytes |-> ""]

(* json.Marshal of the test's Input struct *)
Marshal(body) == "{\"requestValue\":\"" \o body.data \o "\"}"

(* json.NewEncoder(buffer).Encode(body): the JSON text followed by a       *)
(* newline; a chan cannot be encoded.                                      *)
Encode(body) ==
    IF body.kind = "chan"
    THEN [bytes |-> "", err |-> NewError("json: unsupported type: chan int")]
    ELSE [bytes |-> Marshal(body) \o "\n", err |-> NilErr]

(* convertToReader without the test for an io.Reader *)
convertToReader_encodesReader(body) ==
    IF body.kind = "nil" THEN [reader |-> NoReader, err |-> NilErr]
    ELSE LET enc == Encode(body) IN
         IF enc.err # NilErr
         THEN [reader |-> NoReader,
               err |-> Wrap("failed to parse request body to json", enc.err)]
         ELSE [reader |-> [present |-> TRUE, bytes |-> enc.bytes],
               err |-> NilErr]

convertToReader(body) ==
    IF body.kind = "nil" THEN [reader |-> NoReader, err |-> NilErr]
    ELSE IF body.kind = "io.Reader"
    THEN [reader |-> [present |-> TRUE, bytes |-> body.data], err |-> NilErr]
    ELSE LET enc == Encode(body) IN
         IF enc.err # NilErr
         THEN [reader |-> NoReader,
               err |-> Wrap("failed to parse request body to json", enc.err)]
         ELSE [reader |-> [present |-> TRUE, bytes |-> enc.bytes],
               err |-> NilErr]

(* A URL string is its part before the query (text) and the segments of   *)
(* its query string, each segment the raw <<key, value>> of "key=value".   *)
URLString(text, query) == [text |-> text, query |-> query]
NoURL == URLString("", <<>>)

(* http.NewRequest: the method must be a token, the URL must parse *)
validMethod(method) == method \in {"", "GET", "POST"}
parseableURL(url) == url.text \in {"", "http://", "http://example.com"}

(* A map[string]string (Params.Headers, Params.Query) is a set of          *)
(* <<name, value>> pairs with one pair per name; an http.Header and a      *)
(* url.Values are sets of <<name, values>> pairs with one pair per name.   *)
Keys(m) == {kv[1] : kv \in m}

(* the orders in which a range statement can go through the map m *)
Orders(m) ==
    {o \in [1..Cardinality(m) -> m] :
        \A i, j \in 1..Cardinality(m) : i # j => o[i] # o[j]}

(* textproto.CanonicalMIMEHeaderKey for the header names of the model *)
CanonicalMIMEHeaderKey(key) ==
    CASE key \in {"accept", "Accept", "ACCEPT"} -> "Accept"
      [] key \in {"content-type", "Content-Type", "CONTENT-TYPE"} -> "Content-Type"
      [] key \in {"test-header", "Test-Header"} -> "Test-Header"
      [] OTHER -> key

(* http.Header.Set that keeps the name as the caller spelled it *)
Header_Set_exactKey(h, key, value) ==
    {kv \in h : kv[1] # key} \cup {<<key, <<value>> >>}

(* http.Header.Set *)
Header_Set(h, key, value) ==
    {kv \in h : kv[1] # CanonicalMIMEHeaderKey(key)}
        \cup {<<CanonicalMIMEHeaderKey(key), <<value>> >>}

(* request.go:170-172, the pairs of params.Headers in the order o *)
RECURSIVE SetHeaders(_, _)
SetHeaders(h, o) ==
    IF Len(o) = 0 THEN h
    ELSE SetHeaders(Header_Set(h, o[1][1], o[1][2]), Tail(o))

(* url.QueryUnescape fails on a malformed escape *)
unescapable(s) == s \notin {"%zz", "100%"}

(* url.QueryUnescape and url.QueryEscape for the strings of the model *)
QueryUnescape(s) ==
    CASE s = "a%20b" -> "a b"
      [] s = "a+b" -> "a b"
      [] s = "%25%26%2F" -> "%&/"
      [] OTHER -> s

QueryEscape(s) ==
    CASE s = "a b" -> "a+b"
      [] s = "%&/" -> "%25%26%2F"
      [] OTHER -> s

(* url.Values.Add *)
Values_Add(v, key, value) ==
    IF key \in Keys(v)
    THEN {IF kv[1] = key THEN <<key, Append(kv[2], value)>> ELSE kv : kv \in v}
    ELSE v \cup {<<key, <<value>> >>}

(* req.URL.Query(): url.ParseQuery of the raw query, which leaves out the  *)
(* segments it cannot unescape                                             *)
RECURSIVE URL_Query(_)
URL_Query(segments) ==
    IF Len(segments) = 0 THEN {}
    ELSE LET seg == segments[Len(segments)]
             rest == URL_Query(SubSeq(segments, 1, Len(segments) - 1))
         IN IF unescapable(seg[1]) /\ unescapable(seg[2])
            THEN Values_Add(rest, QueryUnescape(seg[1]), QueryUnescape(seg[2]))
            ELSE rest

(* the loop of request.go:176-178 with q.Set in the place of q.Add: the    *)
(* supplied value replaces the values the key has                          *)
RECURSIVE AddQuery_replaces(_, _)
AddQuery_replaces(q, o) ==
    IF Len(o) = 0 THEN q
    ELSE AddQuery_replaces({kv \in q : kv[1] # o[1][1]}
                               \cup {<<o[1][1], <<o[1][2]>> >>},
                           Tail(o))

(* request.go:176-178, the pairs of params.Query in the order o *)
RECURSIVE AddQuery(_, _)
AddQuery(q, o) ==
    IF Len(o) = 0 THEN q
    ELSE AddQuery(Values_Add(q, o[1][1], o[1][2]), Tail(o))

(* the keys of the model in the order of sort.Strings *)
SortedKeys == <<"%&/", "a b", "beenhere", "key", "testKey">>

(* url.Values.Encode: the escaped pairs, sorted by key *)
RECURSIVE Values_Encode(_, _)
Values_Encode(v, keys) ==
    IF Len(keys) = 0 THEN <<>>
    ELSE LET vals == IF keys[1] \in Keys(v)
                     THEN (CHOOSE kv \in v : kv[1] = keys[1])[2] ELSE <<>>
         IN [i \in 1..Len(vals) |->
                <<QueryEscape(keys[1]), QueryEscape(vals[i])>>]
            \o Values_Encode(v, Tail(keys))

NoRequest == [Method |-> "", URL |-> NoURL, Header |-> {}, Body |-> NoReader]

NewRequest(method, url, reader) ==
    IF ~validMethod(method)
    THEN [req |-> NoRequest,
          err |-> NewError("net/http: invalid method \"" \o method \o "\"")]
    ELSE IF ~parseableURL(url)
    THEN [req |-> NoRequest,
          err |-> NewError("parse \"" \o url.text \o "\": invalid URL")]
    ELSE [req |-> [Method |-> IF method = "" THEN "GET" ELSE method,
                   URL |-> url, Header |-> {}, Body |-> reader],
          err |-> NilErr]

(* createRequest, request.go:158-183; ho and qo are the orders in which    *)
(* the range statements go through params.Headers and params.Query         *)
createRequest(prm, ho, qo) ==
    LET conv == convertToReader(prm.Body) IN
    IF conv.err # NilErr THEN [req |-> NoRequest, err |-> conv.err]
    ELSE LET r == NewRequest(prm.Method, prm.URL, conv.reader) IN
         IF r.err # NilErr
         THEN [req |-> NoRequest, err |-> Wrap("failed to create request", r.err)]
         ELSE LET hdr == SetHeaders(
                             Header_Set(Header_Set({}, "Accept", "application/json"),
                                        "Content-Type", "application/json"),
                             ho)
                  raw == IF Cardinality(prm.Query) > 0
                         THEN Values_Encode(AddQuery(URL_Query(r.req.URL.query), qo),
                                            SortedKeys)
                         ELSE r.req.URL.query
              IN [req |-> [r.req EXCEPT !.Header = hdr, !.URL.query = raw],
                  err |-> NilErr]

-----------------------------------------------------------------------------
(* Client selection. *)

(* GetClient, request.go:34-41: a new client object *)
GetClient == [CheckRedirect |-> "ErrUseLastResponse", Timeout |-> defaultTimeout]

(* the heap after the allocation of object c; its address is Len(heap)+1 *)
Alloc(heap, c) == Append(heap, c)

-----------------------------------------------------------------------------
(* Status validation. *)

(* isSuccessCode with the upper end of the range excluded *)
isSuccessCode_exclusive(statusCode) == 200 <= statusCode /\ statusCode < 299

isSuccessCode(statusCode) == 200 <= statusCode /\ statusCode <= 299

(* the response body stream: data and rerr are what ioutil.ReadAll or the  *)
(* JSON decoder got from it, cerr what Close returned, log the operations  *)
(* applied to it                                                           *)
NewBody == [data |-> "", rerr |-> FALSE, cerr |-> NilErr, log |-> <<>>]

(* the stream after an operation op that read it with outcome rd *)
ReadFrom(body, op, rd) ==
    [body EXCEPT !.data = rd.data, !.rerr = rd.rerr, !.log = Append(@, op)]

(* the stream after res.Body.Close() returned cErr *)
Closed(body, cErr) ==
    [body EXCEPT !.cerr = cErr, !.log = Append(@, "Close")]

(* checkResponseCode with the two checks in the other order *)
checkResponseCode_rangeFirst(r, expectedResponseCode, rd) ==
    IF ~isSuccessCode(r.StatusCode)
    THEN [err |-> IF rd.rerr \/ Len(rd.data) = 0
                  THEN httperrors_New(r.StatusCode, NoMessage)
                  ELSE httperrors_New(r.StatusCode, Message(rd.data)),
          Body |-> ReadFrom(r.Body, "ReadAll", rd)]
    ELSE IF expectedResponseCode # 0 /\ r.StatusCode # expectedResponseCode
    THEN [err |-> NewError("expected response code "
                           \o ToString(expectedResponseCode)
                           \o " but got " \o ToString(r.StatusCode)),
          Body |-> r.Body]
    ELSE [err |-> NilErr, Body |-> r.Body]

(* checkResponseCode that attaches whatever was read before a read error *)
checkResponseCode_ignoresReadError(r, expectedResponseCode, rd) ==
    IF expectedResponseCode # 0 /\ r.StatusCode # expectedResponseCode
    THEN [err |-> NewError("expected response code "
                           \o ToString(expectedResponseCode)
                           \o " but got " \o ToString(r.StatusCode)),
          Body |-> r.Body]
    ELSE IF ~isSuccessCode(r.StatusCode)
    THEN [err |-> IF Len(rd.data) = 0
                  THEN httperrors_New(r.StatusCode, NoMessage)
                  ELSE httperrors_New(r.StatusCode, Message(rd.data)),
          Body |-> ReadFrom(r.Body, "ReadAll", rd)]
    ELSE [err |-> NilErr, Body |-> r.Body]

(* checkResponseCode, request.go:236-251.  rd is the outcome of            *)
(* ioutil.ReadAll(res.Body), used on the path that reads the body.         *)
checkResponseCode(r, expectedResponseCode, rd) ==
    IF expectedResponseCode # 0 /\ r.StatusCode # expectedResponseCode
    THEN [err |-> NewError("expected response code "
                           \o ToString(expectedResponseCode)
                           \o " but got " \o ToString(r.StatusCode)),
          Body |-> r.Body]
    ELSE IF ~isSuccessCode(r.StatusCode)
    THEN [err |-> IF rd.rerr \/ Len(rd.data) = 0
                  THEN httperrors_New(r.StatusCode, NoMessage)
                  ELSE httperrors_New(r.StatusCode, Message(rd.data)),
          Body |-> ReadFrom(r.Body, "ReadAll", rd)]
    ELSE [err |-> NilErr, Body |-> r.Body]

-----------------------------------------------------------------------------
(* Response headers.  An http.Header is a map from a name to a list of     *)
(* values, here a set of <<name, values>> pairs with one pair per name;    *)
(* nil tells the nil map.                                                  *)

NilHeader == [nil |-> TRUE, m |-> {}]
MakeHeader(m) == [nil |-> FALSE, m |-> m]

(* responseHeader[key] = value for every pair of header *)
CopyInto(dst, header) ==
    {kv \in dst : kv[1] \notin Keys(header)} \cup header

(* populateResponseHeader that counts the arguments only after the copy    *)
(* into the first one                                                      *)
populateResponseHeader_copiesFirst(r, hdrArg) ==
    IF Len(hdrArg) = 0
    THEN [err |-> NilErr, arg |-> hdrArg, panic |-> FALSE]
    ELSE IF hdrArg[1].nil /\ r.Header # {}
    THEN [err |-> NilErr, arg |-> hdrArg, panic |-> TRUE]
    ELSE [err |-> IF Len(hdrArg) > 1
                  THEN NewError("too many arguments supplied") ELSE NilErr,
          arg |-> [hdrArg EXCEPT ![1].m = CopyInto(@, r.Header)],
          panic |-> FALSE]

(* populateResponseHeader, request.go:257-272: the error, the header       *)
(* arguments afterwards, and whether the assignment to an entry of a nil   *)
(* map panicked                                                            *)
populateResponseHeader(r, hdrArg) ==
    IF Len(hdrArg) = 0
    THEN [err |-> NilErr, arg |-> hdrArg, panic |-> FALSE]
    ELSE IF Len(hdrArg) > 1
    THEN [err |-> NewError("too many arguments supplied"),
          arg |-> hdrArg, panic |-> FALSE]
    ELSE IF hdrArg[1].nil /\ r.Header # {}
    THEN [err |-> NilErr, arg |-> hdrArg, panic |-> TRUE]
    ELSE [err |-> NilErr,
          arg |-> <<[hdrArg[1] EXCEPT !.m = CopyInto(@, r.Header)]>>,
          panic |-> FALSE]

-----------------------------------------------------------------------------
(* Decoding. *)

validJSON(text) == text \in {"{\"responseValue\":\"y\"}"}

(* json.NewDecoder(res.Body).Decode(responseBody) with rd the outcome of   *)
(* reading the stream                                                      *)
Decode(rd) ==
    IF rd.rerr THEN NewError("unexpected EOF")
    ELSE IF Len(rd.data) = 0 THEN NewError("EOF")
    ELSE IF ~validJSON(rd.data) THEN NewError("invalid character")
    ELSE NilErr

-----------------------------------------------------------------------------
(* The state machine. *)

NoParams == [URL |-> NoURL, Method |-> "", Headers |-> {}, Body |-> NilBody,
             Query |-> {}, Timeout |-> 0, ExpectedResponseCode |-> 0]

NoResponse == [StatusCode |-> 0, Header |-> {}, Body |-> NewBody]

Init ==
    /\ cachedClient = NULL
    /\ clients = <<>>
    /\ ncalls = 0
    /\ selected = <<>>
    /\ pc = [p \in Procs |-> "idle"]
    /\ entry = [p \in Procs |-> ""]
    /\ params = [p \in Procs |-> NoParams]
    /\ responseBody = [p \in Procs |-> "nil"]
    /\ responseHeaderArg = [p \in Procs |-> <<>>]
    /\ req = [p \in Procs |-> NoRequest]
    /\ client = [p \in Procs |-> NULL]
    /\ dispatched = [p \in Procs |-> <<>>]
    /\ res = [p \in Procs |-> NoResponse]
    /\ returnErr = [p \in Procs |-> NilErr]
    /\ result = [p \in Procs |-> ""]
    /\ panicking = [p \in Procs |-> FALSE]

(* The inputs of the calls and the answers of the transport.               *)
AllParams(I) ==
    [URL : I.URLs, Method : I.Methods, Headers : I.ReqHeaders,
     Body : I.Bodies, Query : I.Queries, Timeout : I.Timeouts,
     ExpectedResponseCode : I.Expected]

ReadOutcomes(I) == [data : I.Texts, rerr : I.ReadErrs]

(* The first lines of Do (request.go:58-61), DoWithStringResponse          *)
(* (request.go:95-98) and DoWithCustomClient (request.go:130-133): the     *)
(* request is created, and the call returns when that fails.  cl is the    *)
(* client argument of DoWithCustomClient.                                  *)
Begin(p, e, prm, dest, hdrArg, cl, maxCalls) ==
    /\ pc[p] = "idle"
    /\ ncalls < maxCalls
    /\ ncalls' = ncalls + 1
    /\ entry' = [entry EXCEPT ![p] = e]
    /\ params' = [params EXCEPT ![p] = prm]
    /\ responseBody' = [responseBody EXCEPT ![p] = dest]
    /\ responseHeaderArg' = [responseHeaderArg EXCEPT ![p] = hdrArg]
    /\ client' = [client EXCEPT ![p] = cl]
    /\ \E ho \in Orders(prm.Headers), qo \in Orders(prm.Query) :
       LET cr == createRequest(prm, ho, qo) IN
       IF cr.err # NilErr
       THEN /\ returnErr' = [returnErr EXCEPT ![p] =
                   IF e = "DoWithStringResponse" THEN cr.err
                   ELSE Wrap("failed to create request", cr.err)]
            /\ req' = req
            /\ pc' = [pc EXCEPT ![p] = "done"]
       ELSE /\ returnErr' = returnErr
            /\ req' = [req EXCEPT ![p] = cr.req]
            /\ pc' = [pc EXCEPT ![p] =
                   IF e = "DoWithCustomClient" THEN "send" ELSE "select"]
    /\ UNCHANGED <<cachedClient, selected, dispatched, res, result, panicking>>

(* Do, request.go:57 *)
Do(p, I) ==
    /\ pc[p] = "idle"
    /\ \E prm \in AllParams(I), dest \in I.Dests, hdrArg \in I.HeaderArgs :
           /\ Begin(p, "Do", prm, dest, hdrArg, NULL, I.MaxCalls)
           /\ UNCHANGED clients

(* DoWithStringResponse, request.go:94 *)
DoWithStringResponse(p, I) ==
    /\ pc[p] = "idle"
    /\ \E prm \in AllParams(I) :
           /\ Begin(p, "DoWithStringResponse", prm, "nil", <<>>, NULL, I.MaxCalls)
           /\ UNCHANGED clients

(* DoWithCustomClient, request.go:129, with a client the caller got from   *)
(* GetClient (request_test.go:325)                                         *)
DoWithCustomClient(p, I) ==
    /\ pc[p] = "idle"
    /\ \E prm \in AllParams(I), dest \in I.Dests :
           /\ clients' = Alloc(clients, GetClient)
           /\ Begin(p, "DoWithCustomClient", prm, dest, <<>>, Len(clients) + 1,
                    I.MaxCalls)

(* Get, request.go:186-188 *)
Get(p, I) ==
    /\ pc[p] = "idle"
    /\ \E url \in I.URLs, dest \in I.Dests :
           /\ Begin(p, "Do", [NoParams EXCEPT !.Method = "GET", !.URL = url],
                    dest, <<>>, NULL, I.MaxCalls)
           /\ UNCHANGED clients

(* Post, request.go:191-193 *)
Post(p, I) ==
    /\ pc[p] = "idle"
    /\ \E url \in I.URLs, body \in I.Bodies, dest \in I.Dests :
           /\ Begin(p, "Do", [NoParams EXCEPT !.Method = "POST", !.URL = url,
                                              !.Body = body],
                    dest, <<>>, NULL, I.MaxCalls)
           /\ UNCHANGED clients

(* selectClient that keeps the client with the timeout of the call as the  *)
(* cached client                                                           *)
selectClient_cachesOverride(p) ==
    /\ pc[p] = "select"
    /\ IF params[p].Timeout # 0
       THEN /\ clients' = Alloc(clients,
                    [GetClient EXCEPT !.Timeout = params[p].Timeout])
            /\ cachedClient' = Len(clients) + 1
            /\ client' = [client EXCEPT ![p] = Len(clients) + 1]
            /\ selected' = Append(selected,
                    [Timeout |-> params[p].Timeout, client |-> Len(clients) + 1])
            /\ pc' = [pc EXCEPT ![p] = "send"]
       ELSE /\ pc' = [pc EXCEPT ![p] = "getCachedClient"]
            /\ UNCHANGED <<cachedClient, clients, client, selected>>
    /\ UNCHANGED <<ncalls, entry, params, responseBody,
                   responseHeaderArg, req, dispatched, res, returnErr, result,
                   panicking>>

(* selectClient, request.go:226-234: a new client with the timeout of the  *)
(* call, or the call of getCachedClient                                    *)
selectClient(p) ==
    /\ pc[p] = "select"
    /\ IF params[p].Timeout # 0
       THEN /\ clients' = Alloc(clients,
                    [GetClient EXCEPT !.Timeout = params[p].Timeout])
            /\ client' = [client EXCEPT ![p] = Len(clients) + 1]
            /\ selected' = Append(selected,
                    [Timeout |-> params[p].Timeout, client |-> Len(clients) + 1])
            /\ pc' = [pc EXCEPT ![p] = "send"]
       ELSE /\ pc' = [pc EXCEPT ![p] = "getCachedClient"]
            /\ UNCHANGED <<clients, client, selected>>
    /\ UNCHANGED <<cachedClient, ncalls, entry, params, responseBody,
                   responseHeaderArg, req, dispatched, res, returnErr, result,
                   panicking>>

(* getCachedClient, request.go:26: the test of cachedClient *)
getCachedClient_test(p) ==
    /\ pc[p] = "getCachedClient"
    /\ pc' = [pc EXCEPT ![p] = IF cachedClient = NULL THEN "create" ELSE "return"]
    /\ UNCHANGED <<cachedClient, clients, ncalls, selected, entry, params,
                   responseBody, responseHeaderArg, req, client, dispatched,
                   res, returnErr, result, panicking>>

(* getCachedClient, request.go:27: cachedClient = GetClient() *)
getCachedClient_create(p) ==
    /\ pc[p] = "create"
    /\ clients' = Alloc(clients, GetClient)
    /\ cachedClient' = Len(clients) + 1
    /\ pc' = [pc EXCEPT ![p] = "return"]
    /\ UNCHANGED <<ncalls, selected, entry, params, responseBody,
                   responseHeaderArg, req, client, dispatched, res, returnErr,
                   result, panicking>>

(* getCachedClient, request.go:30, and the return of selectClient,         *)
(* request.go:233                                                          *)
getCachedClient_return(p) ==
    /\ pc[p] = "return"
    /\ client' = [client EXCEPT ![p] = cachedClient]
    /\ selected' = Append(selected, [Timeout |-> 0, client |-> cachedClient])
    /\ pc' = [pc EXCEPT ![p] = "send"]
    /\ UNCHANGED <<cachedClient, clients, ncalls, entry, params, responseBody,
                   responseHeaderArg, req, dispatched, res, returnErr, result,
                   panicking>>

(* client.Do(req) in a loop that sends the request a second time when the  *)
(* transport failed                                                        *)
clientDo_retries(p, I) ==
    /\ pc[p] = "send"
    /\ dispatched' = [dispatched EXCEPT ![p] = Append(@, req[p])]
    /\ \/ \E e \in I.SendErrs :
            /\ returnErr' = [returnErr EXCEPT ![p] =
                    IF Len(dispatched[p]) = 0 THEN @
                    ELSE Wrap("failed to send request", NewError(e))]
            /\ pc' = [pc EXCEPT ![p] =
                    IF Len(dispatched[p]) = 0 THEN "send" ELSE "done"]
            /\ res' = res
       \/ \E code \in I.Codes, header \in I.Headers :
            /\ res' = [res EXCEPT ![p] = [StatusCode |-> code,
                                          Header |-> header, Body |-> NewBody]]
            /\ pc' = [pc EXCEPT ![p] = "check"]
            /\ returnErr' = returnErr
    /\ UNCHANGED <<cachedClient, clients, ncalls, selected, entry, params,
                   responseBody, responseHeaderArg, req, client, result,
                   panicking>>

(* client.Do(req), request.go:64-67, 101-104, 135-138: the transport       *)
(* fails, or it answers with a response whose body is not read yet         *)
clientDo(p, I) ==
    /\ pc[p] = "send"
    /\ dispatched' = [dispatched EXCEPT ![p] = Append(@, req[p])]
    /\ \/ \E e \in I.SendErrs :
            /\ returnErr' = [returnErr EXCEPT ![p] =
                    Wrap("failed to send request", NewError(e))]
            /\ pc' = [pc EXCEPT ![p] = "done"]
            /\ res' = res
       \/ \E code \in I.Codes, header \in I.Headers :
            /\ res' = [res EXCEPT ![p] = [StatusCode |-> code,
                                          Header |-> header, Body |-> NewBody]]
            /\ pc' = [pc EXCEPT ![p] = "check"]
            /\ returnErr' = returnErr
    /\ UNCHANGED <<cachedClient, clients, ncalls, selected, entry, params,
                   responseBody, responseHeaderArg, req, client, result,
                   panicking>>

(* the status check with the close deferred only after it: an error of the *)
(* check returns without the close                                         *)
checkResponseCodeStep_beforeDefer(p, I) ==
    /\ pc[p] = "check"
    /\ \E rd \in ReadOutcomes(I) :
         LET out == checkResponseCode(res[p], params[p].ExpectedResponseCode, rd)
         IN /\ res' = [res EXCEPT ![p].Body = out.Body]
            /\ returnErr' = [returnErr EXCEPT ![p] = out.err]
            /\ pc' = [pc EXCEPT ![p] =
                   IF out.err # NilErr THEN "done"
                   ELSE IF entry[p] = "Do" THEN "populate"
                   ELSE IF entry[p] = "DoWithStringResponse" THEN "readall"
                   ELSE "decode"]
    /\ UNCHANGED <<cachedClient, clients, ncalls, selected, entry, params,
                   responseBody, responseHeaderArg, req, client, dispatched,
                   result, panicking>>

(* err = checkResponseCode(res, params.ExpectedResponseCode) and the       *)
(* return on an error, request.go:75-78, 112-115, 146-149                  *)
checkResponseCodeStep(p, I) ==
    /\ pc[p] = "check"
    /\ \E rd \in ReadOutcomes(I) :
         LET out == checkResponseCode(res[p], params[p].ExpectedResponseCode, rd)
         IN /\ res' = [res EXCEPT ![p].Body = out.Body]
            /\ returnErr' = [returnErr EXCEPT ![p] = out.err]
            /\ pc' = [pc EXCEPT ![p] =
                   IF out.err # NilErr THEN "close"
                   ELSE IF entry[p] = "Do" THEN "populate"
                   ELSE IF entry[p] = "DoWithStringResponse" THEN "readall"
                   ELSE "decode"]
    /\ UNCHANGED <<cachedClient, clients, ncalls, selected, entry, params,
                   responseBody, responseHeaderArg, req, client, dispatched,
                   result, panicking>>

(* err = populateResponseHeader(res, responseHeaderArg), request.go:80-83 *)
populateResponseHeaderStep(p) ==
    /\ pc[p] = "populate"
    /\ LET out == populateResponseHeader(res[p], responseHeaderArg[p])
       IN /\ responseHeaderArg' = [responseHeaderArg EXCEPT ![p] = out.arg]
          /\ returnErr' = [returnErr EXCEPT ![p] = out.err]
          /\ panicking' = [panicking EXCEPT ![p] = out.panic]
          /\ pc' = [pc EXCEPT ![p] =
                 IF out.panic \/ out.err # NilErr THEN "close" ELSE "decode"]
    /\ UNCHANGED <<cachedClient, clients, ncalls, selected, entry, params,
                   responseBody, req, client, dispatched, res, result>>

(* request.go:85-89, 151-155: nothing is decoded into a nil responseBody *)
decodeStep(p, I) ==
    /\ pc[p] = "decode"
    /\ IF responseBody[p] = "nil"
       THEN UNCHANGED <<res, returnErr, result>>
       ELSE \E rd \in ReadOutcomes(I) :
              /\ res' = [res EXCEPT ![p].Body = ReadFrom(@, "Decode", rd)]
              /\ returnErr' = [returnErr EXCEPT ![p] = Decode(rd)]
              /\ result' = [result EXCEPT ![p] =
                     IF Decode(rd) = NilErr THEN rd.data ELSE @]
    /\ pc' = [pc EXCEPT ![p] = "close"]
    /\ UNCHANGED <<cachedClient, clients, ncalls, selected, entry, params,
                   responseBody, responseHeaderArg, req, client, dispatched,
                   panicking>>

(* request.go:117-122: the body as a string *)
readAllStep(p, I) ==
    /\ pc[p] = "readall"
    /\ \E rd \in ReadOutcomes(I) :
         /\ res' = [res EXCEPT ![p].Body = ReadFrom(@, "ReadAll", rd)]
         /\ IF rd.rerr
            THEN /\ returnErr' = [returnErr EXCEPT ![p] =
                        Wrap("failed to read response body",
                             NewError("unexpected EOF"))]
                 /\ result' = [result EXCEPT ![p] = ""]
            ELSE /\ returnErr' = [returnErr EXCEPT ![p] = NilErr]
                 /\ result' = [result EXCEPT ![p] = rd.data]
    /\ pc' = [pc EXCEPT ![p] = "close"]
    /\ UNCHANGED <<cachedClient, clients, ncalls, selected, entry, params,
                   responseBody, responseHeaderArg, req, client, dispatched,
                   panicking>>

(* the deferred function without the test of returnErr *)
deferredClose_masks(p, I) ==
    /\ pc[p] = "close"
    /\ \E cErr \in I.CloseErrs :
         /\ res' = [res EXCEPT ![p].Body = Closed(@, cErr)]
         /\ returnErr' = [returnErr EXCEPT ![p] =
                IF cErr # NilErr THEN cErr ELSE @]
    /\ pc' = [pc EXCEPT ![p] = "done"]
    /\ UNCHANGED <<cachedClient, clients, ncalls, selected, entry, params,
                   responseBody, responseHeaderArg, req, client, dispatched,
                   result, panicking>>

(* the deferred function, request.go:69-73, 106-110, 140-144 *)
deferredClose(p, I) ==
    /\ pc[p] = "close"
    /\ \E cErr \in I.CloseErrs :
         /\ res' = [res EXCEPT ![p].Body = Closed(@, cErr)]
         /\ returnErr' = [returnErr EXCEPT ![p] =
                IF cErr # NilErr /\ @ = NilErr THEN cErr ELSE @]
    /\ pc' = [pc EXCEPT ![p] = "done"]
    /\ UNCHANGED <<cachedClient, clients, ncalls, selected, entry, params,
                   responseBody, responseHeaderArg, req, client, dispatched,
                   result, panicking>>

(* The call has returned to its caller; the goroutine drops the locals.    *)
Return(p) ==
    /\ pc[p] = "done"
    /\ pc' = [pc EXCEPT ![p] = "idle"]
    /\ entry' = [entry EXCEPT ![p] = ""]
    /\ params' = [params EXCEPT ![p] = NoParams]
    /\ responseBody' = [responseBody EXCEPT ![p] = "nil"]
    /\ responseHeaderArg' = [responseHeaderArg EXCEPT ![p] = <<>>]
    /\ req' = [req EXCEPT ![p] = NoRequest]
    /\ client' = [client EXCEPT ![p] = NULL]
    /\ dispatched' = [dispatched EXCEPT ![p] = <<>>]
    /\ res' = [res EXCEPT ![p] = NoResponse]
    /\ returnErr' = [returnErr EXCEPT ![p] = NilErr]
    /\ result' = [result EXCEPT ![p] = ""]
    /\ panicking' = [panicking EXCEPT ![p] = FALSE]
    /\ UNCHANGED <<cachedClient, clients, ncalls, selected>>

-----------------------------------------------------------------------------
(* Inputs. *)

CloseError == NewError("close failed")

Header1 == {<<"X-A", <<"v1", "v2">> >>}
OldHeader == {<<"X-A", <<"old">> >>, <<"X-B", <<"kept">> >>}

Inputs ==
    [MaxCalls |-> MaxCalls,
     URLs |-> {URLString("http://example.com", << <<"beenhere", "before">> >>),
               URLString(":", <<>>)},
     Methods |-> {"GET", "some method"},
     ReqHeaders |-> {{<<"content-type", "image/*">>,
                      <<"Test-Header", "testHeaderValue">>}},
     Queries |-> {{<<"testKey", "testValue">>, <<"%&/", "a b">>}},
     Bodies |-> {NilBody,
                 [kind |-> "io.Reader", data |-> "{\"requestValue\":\"someValueIn\"}"],
                 [kind |-> "struct", data |-> "someValueIn"],
                 [kind |-> "chan", data |-> ""]},
     Timeouts |-> {0, 5},
     Expected |-> {0, 200, 404},
     Dests |-> {"nil", "ptr"},
     HeaderArgs |-> {<<>>, <<NilHeader>>, <<MakeHeader({})>>,
                     <<MakeHeader(OldHeader)>>,
                     <<MakeHeader({}), MakeHeader(OldHeader)>>},
     SendErrs |-> {"connection refused"},
     Codes |-> {199, 200, 201, 299, 300, 404},
     Headers |-> {{}, Header1},
     Texts |-> {"", "boom", "{\"responseValue\":\"y\"}"},
     ReadErrs |-> {FALSE, TRUE},
     CloseErrs |-> {NilErr, CloseError}]

(* the steps of a call that has created its request *)
Pipeline(p, I) ==
    \/ selectClient(p)
    \/ getCachedClient_test(p)
    \/ getCachedClient_create(p)
    \/ getCachedClient_return(p)
    \/ clientDo(p, I)
    \/ checkResponseCodeStep(p, I)
    \/ populateResponseHeaderStep(p)
    \/ decodeStep(p, I)
    \/ readAllStep(p, I)
    \/ deferredClose(p, I)
    \/ Return(p)

(* A sequential series of calls of one goroutine. *)
Next ==
    \/ Get(MainProc, Inputs)
    \/ Post(MainProc, Inputs)
    \/ Do(MainProc, Inputs)
    \/ DoWithStringResponse(MainProc, Inputs)
    \/ DoWithCustomClient(MainProc, Inputs)
    \/ Pipeline(MainProc, Inputs)

Spec == Init /\ [][Next]_vars

(* Concurrent calls of Get, Post, Do and DoWithStringResponse by all       *)
(* goroutines; what the calls are given and what the transport answers is  *)
(* narrowed to the inputs that select the client.                          *)
ConcInputs ==
    [MaxCalls |-> MaxConcCalls,
     URLs |-> {URLString("http://example.com", <<>>)},
     Methods |-> {"GET"},
     ReqHeaders |-> {{}},
     Queries |-> {{}},
     Bodies |-> {NilBody},
     Timeouts |-> {0, 5},
     Expected |-> {0},
     Dests |-> {"nil"},
     HeaderArgs |-> {<<>>},
     SendErrs |-> {"Client.Timeout exceeded"},
     Codes |-> {200},
     Headers |-> {{}},
     Texts |-> {"{\"responseValue\":\"y\"}"},
     ReadErrs |-> {FALSE},
     CloseErrs |-> {NilErr}]

NextConc ==
    \E p \in Procs :
        \/ Get(p, ConcInputs)
        \/ Post(p, ConcInputs)
        \/ Do(p, ConcInputs)
        \/ DoWithStringResponse(p, ConcInputs)
        \/ Pipeline(p, ConcInputs)

SpecConc == Init /\ [][NextConc]_vars

(* the map[string]string values with at most MaxMapLen of the pairs: no    *)
(* two pairs of a map have the same key                                    *)
Maps(pairs) ==
    {m \in SUBSET pairs :
        /\ Cardinality(m) <= MaxMapLen
        /\ \A a, b \in m : a[1] = b[1] => a = b}

(* Calls of one goroutine with the headers, the query parameters and the   *)
(* target URLs that createRequest tells apart; the transport answers every *)
(* request in the same way.                                                *)
BuildInputs ==
    [MaxCalls |-> MaxBuildCalls,
     URLs |-> {URLString("http://example.com", <<>>),
               URLString("http://example.com", << <<"beenhere", "before">> >>),
               URLString("http://example.com",
                         << <<"testKey", "old">>, <<"key", "a%20b">>,
                            <<"testKey", "older">> >>),
               URLString("http://example.com",
                         << <<"key", "%zz">>, <<"beenhere", "before">> >>)},
     Methods |-> {"GET"},
     ReqHeaders |-> Maps({<<"accept", "text/html">>, <<"ACCEPT", "text/plain">>,
                          <<"Content-Type", "image/*">>,
                          <<"content-type", "text/xml">>,
                          <<"Test-Header", "testHeaderValue">>,
                          <<"test-header", "">>}),
     Queries |-> Maps({<<"testKey", "testValue">>, <<"%&/", "a b">>,
                       <<"key", "a b">>, <<"beenhere", "before">>}),
     Bodies |-> {NilBody},
     Timeouts |-> {0},
     Expected |-> {0},
     Dests |-> {"nil"},
     HeaderArgs |-> {<<>>},
     SendErrs |-> {"connection refused"},
     Codes |-> {200},
     Headers |-> {{}},
     Texts |-> {""},
     ReadErrs |-> {FALSE},
     CloseErrs |-> {NilErr}]

NextBuild ==
    \/ Get(MainProc, BuildInputs)
    \/ Post(MainProc, BuildInputs)
    \/ Do(MainProc, BuildInputs)
    \/ DoWithStringResponse(MainProc, BuildInputs)
    \/ DoWithCustomClient(MainProc, BuildInputs)
    \/ Pipeline(MainProc, BuildInputs)

SpecBuild == Init /\ [][NextBuild]_vars

-----------------------------------------------------------------------------
(* Properties. *)

(* the transport has returned a response to the call of p *)
Received(p) == res[p] # NoResponse

(* p is past checkResponseCode *)
Validated(p) == Received(p) /\ pc[p] \in {"populate", "decode", "readall",
                                           "close", "done"}

(* the number of times the response body of p was closed *)
Closes(p) == Cardinality({i \in DOMAIN res[p].Body.log :
                              res[p].Body.log[i] = "Close"})

(* the expected-code check of the call of p failed *)
Mismatch(p) ==
    /\ params[p].ExpectedResponseCode # 0
    /\ res[p].StatusCode # params[p].ExpectedResponseCode

(* C1: without an expected code, a status code in [200,299] passes the     *)
(* status validation (the call goes on without an error and never returns  *)
(* an HTTPError), and every other status code makes the call fail with an  *)
(* HTTPError whose StatusCode is the received status code.                 *)
C1_StatusRange ==
    \A p \in Procs :
        (Validated(p) /\ params[p].ExpectedResponseCode = 0) =>
            IF res[p].StatusCode \in 200..299
            THEN /\ returnErr[p].type # "HTTPError"
                 /\ pc[p] \in {"populate", "decode", "readall"}
                        => returnErr[p] = NilErr
            ELSE /\ pc[p] \in {"close", "done"}
                 /\ returnErr[p].type = "HTTPError"
                 /\ returnErr[p].StatusCode = res[p].StatusCode

C1_Witness ==
    \E p \in Procs :
        /\ pc[p] = "done" /\ Received(p)
        /\ params[p].ExpectedResponseCode = 0
        /\ res[p].StatusCode = 300
        /\ returnErr[p].type = "HTTPError" /\ returnErr[p].StatusCode = 300

(* the message of the expected-code check for the codes of the model *)
ExpectedButGot(x, y) ==
    CASE x = 200 /\ y = 199 -> "expected response code 200 but got 199"
      [] x = 200 /\ y = 201 -> "expected response code 200 but got 201"
      [] x = 200 /\ y = 299 -> "expected response code 200 but got 299"
      [] x = 200 /\ y = 300 -> "expected response code 200 but got 300"
      [] x = 200 /\ y = 404 -> "expected response code 200 but got 404"
      [] x = 404 /\ y = 199 -> "expected response code 404 but got 199"
      [] x = 404 /\ y = 200 -> "expected response code 404 but got 200"
      [] x = 404 /\ y = 201 -> "expected response code 404 but got 201"
      [] x = 404 /\ y = 299 -> "expected response code 404 but got 299"
      [] x = 404 /\ y = 300 -> "expected response code 404 but got 300"
      [] OTHER -> "expected response code ? but got ?"

(* C2: with a nonzero expected code X and a received code Y # X the call   *)
(* fails with exactly "expected response code X but got Y", for Y inside   *)
(* and outside [200,299]; a code Y = X outside [200,299] fails through the *)
(* generic check with an HTTPError.                                        *)
C2_ExpectedCodeFirst ==
    \A p \in Procs :
        (Validated(p) /\ params[p].ExpectedResponseCode # 0) =>
            IF Mismatch(p)
            THEN /\ pc[p] \in {"close", "done"}
                 /\ returnErr[p].type = "error"
                 /\ returnErr[p].text =
                        ExpectedButGot(params[p].ExpectedResponseCode,
                                       res[p].StatusCode)
            ELSE res[p].StatusCode \notin 200..299 =>
                 /\ pc[p] \in {"close", "done"}
                 /\ returnErr[p].type = "HTTPError"
                 /\ returnErr[p].StatusCode = res[p].StatusCode

C2_Witness ==
    \E p \in Procs :
        /\ pc[p] = "done" /\ Received(p)
        /\ params[p].ExpectedResponseCode = 200
        /\ res[p].StatusCode = 404
        /\ res[p].Body.cerr # NilErr
        /\ returnErr[p].text = "expected response code 200 but got 404"

(* C3: a response that does not match the expected code makes the call     *)
(* return an HTTPError that carries the received status code, as a         *)
(* response outside [200,299] does.                                        *)
C3_MismatchIsHTTPError ==
    \A p \in Procs :
        (pc[p] = "done" /\ Received(p) /\ Mismatch(p)) =>
            /\ returnErr[p].type = "HTTPError"
            /\ returnErr[p].StatusCode = res[p].StatusCode

(* C4: once the transport has returned a response the body is closed       *)
(* exactly once before the call returns, as the last operation on the      *)
(* body, on every path; without a response nothing is closed.              *)
C4_ClosedExactlyOnce ==
    \A p \in Procs :
        /\ Closes(p) <= 1
        /\ pc[p] = "done" =>
              IF Received(p)
              THEN /\ Closes(p) = 1
                   /\ res[p].Body.log[Len(res[p].Body.log)] = "Close"
              ELSE res[p].Body.log = <<>>
        /\ (pc[p] # "done" /\ pc[p] # "idle") => Closes(p) = 0

C4_Witness ==
    \E p \in Procs :
        /\ pc[p] = "done" /\ Received(p)
        /\ returnErr[p].text = "too many arguments supplied"
        /\ Closes(p) = 1

(* C5: the deferred close changes the error of the call only when the call *)
(* had no error, and then to the error of the close; an error of the       *)
(* validation, the header capture, the read or the decoding is returned    *)
(* unchanged also when the close fails.                                    *)
C5_CloseNeverMasks ==
    [][\A p \in Procs :
          (pc[p] = "close" /\ pc'[p] = "done") =>
              /\ returnErr[p] # NilErr => returnErr'[p] = returnErr[p]
              /\ returnErr[p] = NilErr => returnErr'[p] = res'[p].Body.cerr]_vars

C5_Witness ==
    \E p \in Procs :
        /\ pc[p] = "done" /\ Received(p)
        /\ res[p].Body.cerr = CloseError
        /\ returnErr[p].type = "HTTPError"

(* the entries of selected made by calls without a timeout *)
SharedUses == {i \in DOMAIN selected : selected[i].Timeout = 0}

(* C6: under any interleaving of calls without a timeout the shared client *)
(* is created once: all these calls get the same instance.                 *)
C6_OneSharedInstance ==
    \A i, j \in SharedUses : selected[i].client = selected[j].client

(* the call of p has selected its client with selectClient *)
HasSelected(p) ==
    /\ entry[p] \in {"Do", "DoWithStringResponse"}
    /\ pc[p] \in {"send", "check", "populate", "decode", "readall", "close"}

(* C7: in a sequential series of calls (of Do, DoWithStringResponse, Get   *)
(* and Post, which select their client) every call without a timeout uses  *)
(* the one shared instance, and every call with a timeout uses an instance *)
(* that no other call got and that is not the cached one.                  *)
C7_SharedAndFresh ==
    /\ \A i \in DOMAIN selected :
           IF selected[i].Timeout = 0
           THEN /\ selected[i].client # NULL
                /\ selected[i].client = cachedClient
           ELSE /\ selected[i].client # NULL
                /\ selected[i].client # cachedClient
                /\ \A j \in DOMAIN selected :
                       j # i => selected[j].client # selected[i].client
    /\ \A p \in Procs :
           HasSelected(p) =>
               /\ selected # <<>>
               /\ selected[Len(selected)] =
                      [Timeout |-> params[p].Timeout, client |-> client[p]]

C7_Witness ==
    /\ Len(selected) = 3
    /\ selected[1].Timeout = 0 /\ selected[2].Timeout # 0
    /\ selected[3].Timeout = 0
    /\ selected[1].client = selected[3].client
    /\ \E p \in Procs : HasSelected(p) /\ client[p] = selected[1].client

(* C8: the cached client, and every client a call without a timeout got,   *)
(* has the default timeout in every state of every interleaving, and no    *)
(* step writes a field of a client that exists.                            *)
C8_SharedTimeoutFixed ==
    /\ [](/\ cachedClient # NULL =>
                clients[cachedClient].Timeout = defaultTimeout
          /\ \A i \in SharedUses :
                clients[selected[i].client].Timeout = defaultTimeout)
    /\ [][\A c \in DOMAIN clients : clients'[c] = clients[c]]_vars

C8_Witness ==
    \E i, j \in DOMAIN selected :
        /\ i < j
        /\ selected[i].Timeout = 0 /\ selected[j].Timeout # 0
        /\ cachedClient # NULL
        /\ \E p, q \in Procs : p # q /\ pc[p] = "send" /\ pc[q] = "send"

(* the generic check of the call of p failed: no mismatch with an expected *)
(* code and a status code outside [200,299]                                *)
GenericFailure(p) ==
    /\ Validated(p)
    /\ ~Mismatch(p)
    /\ res[p].StatusCode \notin 200..299

(* C9 as stated: the HTTPError of the generic check carries the body text  *)
(* when the body was read and is not empty, and no message otherwise.      *)
C9_NoMessageWithoutBody ==
    \A p \in Procs :
        GenericFailure(p) =>
            /\ returnErr[p].type = "HTTPError"
            /\ returnErr[p].text =
                   IF ~res[p].Body.rerr /\ res[p].Body.data # ""
                   THEN res[p].Body.data ELSE ""

(* C9 amended: the HTTPError of the generic check carries the body text    *)
(* when the body was read and is not empty; otherwise it is made from the  *)
(* status code alone and its message is the status text of that code.      *)
C9_BodyOrStatusText ==
    \A p \in Procs :
        GenericFailure(p) =>
            /\ returnErr[p].type = "HTTPError"
            /\ returnErr[p].text =
                   IF ~res[p].Body.rerr /\ res[p].Body.data # ""
                   THEN res[p].Body.data
                   ELSE CASE res[p].StatusCode = 404 -> "Not Found"
                          [] res[p].StatusCode = 300 -> "Multiple Choices"
                          [] OTHER -> ""

C9_Witness ==
    \E p \in Procs :
        /\ pc[p] = "done" /\ GenericFailure(p)
        /\ res[p].StatusCode = 404
        /\ res[p].Body.rerr /\ res[p].Body.data = "boom"
        /\ returnErr[p].text = "Not Found"

(* C10: no payload is sent for a nil body, the bytes of the stream for an  *)
(* io.Reader body, the JSON text of the value (as the encoder writes it,   *)
(* ended by a newline) for every other body; when the body cannot be       *)
(* encoded the call fails with the encoding error and sends nothing.       *)
C10_BodySelection ==
    \A p \in Procs :
        /\ \A i \in DOMAIN dispatched[p] :
              CASE params[p].Body.kind = "nil" ->
                       ~dispatched[p][i].Body.present
                [] params[p].Body.kind = "io.Reader" ->
                       /\ dispatched[p][i].Body.present
                       /\ dispatched[p][i].Body.bytes = params[p].Body.data
                [] params[p].Body.kind = "struct" ->
                       /\ dispatched[p][i].Body.present
                       /\ dispatched[p][i].Body.bytes =
                              "{\"requestValue\":\"someValueIn\"}\n"
                [] OTHER -> FALSE
        /\ (pc[p] # "idle" /\ params[p].Body.kind = "chan") =>
              /\ pc[p] = "done"
              /\ dispatched[p] = <<>>
              /\ returnErr[p].text \in
                    {"failed to parse request body to json: json: unsupported type: chan int",
                     "failed to create request: failed to parse request body to json: json: unsupported type: chan int"}
        /\ (pc[p] \in {"check", "populate", "decode", "readall", "close"}
              \/ Received(p)) => Len(dispatched[p]) = 1

C10_Witness ==
    \E p \in Procs :
        /\ pc[p] = "done" /\ Received(p)
        /\ params[p].Body.kind = "struct"
        /\ Len(dispatched[p]) = 1
        /\ dispatched[p][1].Body.bytes = "{\"requestValue\":\"someValueIn\"}\n"

(* createRequest has built the request of the call of p *)
Built(p) == pc[p] # "idle" /\ req[p] # NoRequest

(* the spellings under which the callers of the model name a header *)
Spellings(name) ==
    CASE name = "Accept" -> {"accept", "Accept", "ACCEPT"}
      [] name = "Content-Type" -> {"content-type", "Content-Type", "CONTENT-TYPE"}
      [] name = "Test-Header" -> {"test-header", "Test-Header"}
      [] OTHER -> {name}

(* the pairs of Params.Headers of p whose name is name, whatever the case *)
Supplied(p, name) == {kv \in params[p].Headers : kv[1] \in Spellings(name)}

(* C11: the built request has Accept and Content-Type application/json     *)
(* unless the caller supplied a header of that name (compared without      *)
(* case), and then the header has the value the caller supplied under that *)
(* name; every other header the caller supplied is there with the caller's *)
(* value, each header has one value, and there are no further headers.     *)
(* (A caller that supplies one name in two spellings supplies two values   *)
(* for one header: the header has one of them.)                            *)
C11_DefaultAndSuppliedHeaders ==
    \A p \in Procs :
        Built(p) =>
            /\ \A name \in {"Accept", "Content-Type", "Test-Header"} :
                  IF Supplied(p, name) # {}
                  THEN \E kv \in Supplied(p, name) :
                           <<name, <<kv[2]>> >> \in req[p].Header
                  ELSE IF name \in {"Accept", "Content-Type"}
                  THEN <<name, <<"application/json">> >> \in req[p].Header
                  ELSE name \notin Keys(req[p].Header)
            /\ Keys(req[p].Header) \subseteq {"Accept", "Content-Type", "Test-Header"}
            /\ \A a, b \in req[p].Header : a[1] = b[1] => a = b
            /\ \A i \in DOMAIN dispatched[p] :
                  dispatched[p][i].Header = req[p].Header

C11_Witness ==
    \E p \in Procs :
        /\ pc[p] = "done" /\ Len(dispatched[p]) = 1
        /\ params[p].Headers = {<<"content-type", "text/xml">>,
                                <<"test-header", "">>}
        /\ dispatched[p][1].Header = {<<"Accept", <<"application/json">> >>,
                                      <<"Content-Type", <<"text/xml">> >>,
                                      <<"Test-Header", <<"">> >>}

(* the segments of a query string that hold a name and a value: those      *)
(* without a malformed escape                                              *)
WellFormed(segments) ==
    SelectSeq(segments, LAMBDA seg : seg[1] # "%zz" /\ seg[2] # "%zz")

(* the <<name, value>> pairs a query string holds, unescaped *)
PairsOf(segments) ==
    [i \in DOMAIN WellFormed(segments) |->
        <<QueryUnescape(WellFormed(segments)[i][1]),
          QueryUnescape(WellFormed(segments)[i][2])>>]

(* how often the sequence holds the pair *)
Count(pairs, pair) == Cardinality({i \in DOMAIN pairs : pairs[i] = pair})

(* C12: with a non-empty Params.Query the query of the built request holds *)
(* every name/value pair of the URL's query string and every supplied      *)
(* pair, and nothing else: a pair is there as often as the URL had it,     *)
(* once more when it was supplied, so a supplied key that the URL has      *)
(* already gets a further value.  With an empty Query the query string of  *)
(* the URL is left as it was.                                              *)
C12_QueryAddedNotReplaced ==
    \A p \in Procs :
        Built(p) =>
            IF params[p].Query = {}
            THEN req[p].URL.query = params[p].URL.query
            ELSE LET before == PairsOf(params[p].URL.query)
                     after == PairsOf(req[p].URL.query)
                 IN /\ Len(after) = Len(req[p].URL.query)
                    /\ \A pair \in {before[i] : i \in DOMAIN before}
                                    \cup {after[i] : i \in DOMAIN after}
                                    \cup params[p].Query :
                          Count(after, pair) =
                              Count(before, pair)
                                  + (IF pair \in params[p].Query THEN 1 ELSE 0)

C12_Witness ==
    \E p \in Procs :
        /\ pc[p] = "done" /\ Len(dispatched[p]) = 1
        /\ params[p].URL.query = << <<"testKey", "old">>, <<"key", "a%20b">>,
                                    <<"testKey", "older">> >>
        /\ params[p].Query = {<<"testKey", "testValue">>, <<"%&/", "a b">>}
        /\ dispatched[p][1].URL.query =
               << <<"%25%26%2F", "a+b">>, <<"key", "a+b">>, <<"testKey", "old">>,
                  <<"testKey", "older">>, <<"testKey", "testValue">> >>

(* the response of the call of p passed the status validation *)
StatusOK(p) ==
    /\ Received(p)
    /\ ~Mismatch(p)
    /\ res[p].StatusCode \in 200..299

(* C13: in Do a header destination is written only by the step after the   *)
(* status validation of a sent request succeeded, and only when it is the  *)
(* one destination supplied; it then holds every response header with its  *)
(* value list (and keeps what it held under other names).  With more than  *)
(* one destination the call fails with "too many arguments supplied" once  *)
(* the request was sent and validated, and nothing is written; nothing is  *)
(* written either when the build, the send or the validation fails.  (A    *)
(* nil map is no destination: it cannot be written, and the copy of a      *)
(* response header into it panics.)                                        *)
C13_HeaderDestination ==
    /\ [](\A p \in Procs :
            /\ (entry[p] = "Do" /\ StatusOK(p) /\ pc[p] \in {"decode", "close", "done"}
                    /\ Len(responseHeaderArg[p]) = 1) =>
                  IF responseHeaderArg[p][1].nil
                  THEN /\ responseHeaderArg[p][1].m = {}
                       /\ res[p].Header # {} => panicking[p]
                  ELSE /\ res[p].Header \subseteq responseHeaderArg[p][1].m
                       /\ ~panicking[p]
            /\ (entry[p] = "Do" /\ Len(responseHeaderArg[p]) > 1) =>
                  /\ pc[p] # "decode"
                  /\ (StatusOK(p) /\ pc[p] \in {"close", "done"}) =>
                        /\ returnErr[p] = NewError("too many arguments supplied")
                        /\ Len(dispatched[p]) = 1)
    /\ [][\A p \in Procs :
             (pc[p] # "idle" /\ pc'[p] # "idle"
                  /\ responseHeaderArg'[p] # responseHeaderArg[p]) =>
                /\ entry[p] = "Do" /\ pc[p] = "populate"
                /\ Len(dispatched[p]) = 1 /\ StatusOK(p) /\ returnErr[p] = NilErr
                /\ Len(responseHeaderArg[p]) = 1
                /\ Len(responseHeaderArg'[p]) = 1
                /\ res[p].Header \subseteq responseHeaderArg'[p][1].m
                /\ \A kv \in responseHeaderArg[p][1].m :
                      kv[1] \notin Keys(res[p].Header)
                          => kv \in responseHeaderArg'[p][1].m]_vars

C13_Witness ==
    \E p \in Procs :
        /\ pc[p] = "done" /\ entry[p] = "Do" /\ StatusOK(p)
        /\ returnErr[p] = NilErr
        /\ res[p].Header = Header1
        /\ responseHeaderArg[p] =
               <<MakeHeader({<<"X-A", <<"v1", "v2">> >>, <<"X-B", <<"kept">> >>})>>

(* the status validation of the call of p failed *)
ValidationFailed(p) ==
    /\ Received(p)
    /\ pc[p] \in {"close", "done"}
    /\ ~StatusOK(p)

(* C14: after a failed status validation, through the expected-code check  *)
(* as well as through the generic check, the response body was read during *)
(* the validation, and that before it is closed.                           *)
C14_DrainedBeforeClose ==
    \A p \in Procs :
        ValidationFailed(p) =>
            \E i \in DOMAIN res[p].Body.log :
                /\ res[p].Body.log[i] = "ReadAll"
                /\ \A j \in DOMAIN res[p].Body.log :
                      res[p].Body.log[j] = "Close" => i < j

(* createRequest failed in the call of p *)
BuildFailed(p) == pc[p] = "done" /\ req[p] = NoRequest

(* C15: a call hands its request to the transport at most once: not at all *)
(* when createRequest fails (the call returns at once, no client was       *)
(* selected, created or used), once otherwise, and once also when the      *)
(* transport fails or the status is no success.  The one step that hands   *)
(* over a request is client.Do, and it is taken once.                      *)
C15_AtMostOneDispatch ==
    /\ [](\A p \in Procs :
            /\ Len(dispatched[p]) <= 1
            /\ pc[p] \in {"select", "getCachedClient", "create", "return", "send"}
                  => dispatched[p] = <<>>
            /\ pc[p] \in {"check", "populate", "decode", "readall", "close"}
                  => dispatched[p] = <<req[p]>>
            /\ pc[p] = "done" =>
                  IF BuildFailed(p)
                  THEN /\ dispatched[p] = <<>>
                       /\ returnErr[p] # NilErr
                       /\ ~Received(p)
                       /\ entry[p] # "DoWithCustomClient" => client[p] = NULL
                  ELSE dispatched[p] = <<req[p]>>)
    /\ [][\A p \in Procs :
             /\ (pc[p] = "idle" /\ pc'[p] = "done") =>
                    /\ selected' = selected
                    /\ cachedClient' = cachedClient
                    /\ entry'[p] # "DoWithCustomClient" => clients' = clients
             /\ (dispatched'[p] # dispatched[p] /\ pc'[p] # "idle") =>
                    /\ pc[p] = "send"
                    /\ dispatched'[p] = <<req[p]>>]_vars

C15_Witness ==
    \E p \in Procs :
        /\ pc[p] = "done"
        /\ ~Received(p)
        /\ returnErr[p].text = "failed to send request: connection refused"
        /\ dispatched[p] = <<req[p]>>
        /\ req[p] # NoRequest

====
